---- MODULE Spec2Model ----
(***************************************************************************)
(* Recording session controller of record-and-connect                      *)
(* (src/src/components/RecordingStudio.tsx), with the browser objects it   *)
(* drives: the capture promises, the media tracks, the MediaRecorder       *)
(* objects and the interval timers.                                        *)
(*                                                                         *)
(* Every invocation of startRecording is a "call" k; the stream it builds, *)
(* the recorder it creates and the tracks it acquires carry the number k.  *)
(***************************************************************************)
EXTENDS Integers, Sequences, FiniteSets, TLC

\* ------------------------------------------------------------------ bounds
\* startRecording invocations in one behaviour
MaxStarts == 2
\* timeslice blobs one recorder delivers
MaxChunks == 1
\* value of duration up to which timer periods are explored (the run of
\* Script is followed to its end whatever this value)
MaxDuration == 2
\* changes of the capture source or the microphone setting in one behaviour
MaxSettings == 2
\* downloads in one behaviour
MaxDownloads == 2
\* createRoom and joinRoom invocations that ask for the microphone
MaxAttempts == 3
\* characters in the room ID field
MaxInputLen == 2
\* value of callDuration up to which call timer periods are explored
MaxCallDuration == 2

VARIABLES
    recordingState,    \* useState: isRecording, isPaused, duration, recordedBlob
    micEnabled,        \* useState
    captureMode,       \* useState
    mediaRecorderRef,  \* useRef: the recorder's number, 0 for null
    streamRef,         \* useRef: the stream's number, 0 for null
    chunksRef,         \* useRef: the chunk list
    intervalRef,       \* useRef: an interval handle, 0 for null
    timers,            \* the interval handles that are live (set and not cleared)
    calls,             \* the invocations of startRecording and where each stands
    liveTracks,        \* the media tracks whose readyState is "live"
    recorders,         \* the MediaRecorder objects
    toast,             \* title of the last toast raised
    uncaught,          \* the last step ended with an exception nobody caught
    hadSession,        \* a start request has succeeded at some point
    periods,           \* timer periods elapsed in Recording since the last successful start
    settings,          \* changes of captureMode and micEnabled made so far
    scenario,          \* progress along the run of Script, Off once the run has left it
    mounted,           \* Index renders RecordingStudio (activeTab = 'recording')
    exported,          \* the files the download anchor has saved, oldest first
    jobs,              \* part_000: the setTimeout callbacks that are pending
    transcriptState,   \* part_000: isProcessing, transcript, meetingPoints
    \* VoiceCallStudio
    callState,         \* useState: isInCall, isConnecting, callDuration, roomId, isHost
    callMicEnabled,    \* useState micEnabled of VoiceCallStudio
    roomInput,         \* useState: the text of the room ID field
    peers,             \* useState: the peer connections
    localStreamRef,    \* useRef: the local stream's number, 0 for null
    callTimerRef,      \* useRef: an interval handle, 0 for null
    callTimers,        \* the call timers that are live
    micTracks,         \* the audio track of each local stream: live, enabled
    attempts,          \* the invocations of createRoom and joinRoom
    callToast          \* title of the last toast VoiceCallStudio raised

vars == <<recordingState, micEnabled, captureMode, mediaRecorderRef, streamRef,
          chunksRef, intervalRef, timers, calls, liveTracks, recorders, toast,
          uncaught, hadSession, periods, settings, scenario, mounted,
          exported, jobs, transcriptState, callState, callMicEnabled,
          roomInput, peers, localStreamRef, callTimerRef, callTimers,
          micTracks, attempts, callToast>>

\* The state of VoiceCallStudio, a component of its own.
voice == <<callState, callMicEnabled, roomInput, peers, localStreamRef,
           callTimerRef, callTimers, micTracks, attempts, callToast>>

\* The state of RecordingStudio and of the browser objects it drives.
recording == <<recordingState, micEnabled, captureMode, mediaRecorderRef,
               streamRef, chunksRef, intervalRef, timers, calls, liveTracks,
               recorders, toast, uncaught, hadSession, periods, settings,
               scenario, mounted, exported, jobs, transcriptState>>

\* What the handlers and callbacks of a recording session never touch.
others == <<mounted, exported, jobs, transcriptState, voice>>

Calls == 1..MaxStarts
Handles == 1..(MaxStarts + 1)
CaptureModes == {"screen", "window", "camera"}

\* A value that may be null: <<>> is null, <<v>> is the value v.
Null == <<>>
Some(v) == <<v>>

\* ---------------------------------------------------------------- scenario
\* The run of section 8: start(FullScreen, mic=true), 3 periods, pause,
\* 2 periods, resume, 2 periods, stop, and the recorder's finalize task.
Script == <<"start", "display", "mic", "tick", "tick", "tick", "pause",
            "tick", "tick", "resume", "tick", "tick", "stop", "finalize">>
Off == Len(Script) + 1

Observe(e) ==
    scenario' = IF scenario < Len(Script) /\ Script[scenario + 1] = e
                THEN scenario + 1 ELSE Off

\* ------------------------------------------------------------------ status
isRecording == recordingState.isRecording
isPaused == recordingState.isPaused
duration == recordingState.duration
recordedBlob == recordingState.recordedBlob

Status ==
    IF isRecording THEN (IF isPaused THEN "Paused" ELSE "Recording")
    ELSE IF hadSession THEN "Stopped" ELSE "Idle"

\* --------------------------------------------------------- browser objects
\* The tracks of the stream that call k builds: the display or camera
\* capture, and the microphone track added to a display stream.
StreamTracks(k) ==
    IF calls[k].captureMode = "camera" THEN {<<k, "camera">>}
    ELSE {<<k, "display">>} \cup
         (IF calls[k].micEnabled THEN {<<k, "mic">>} ELSE {})

Active(r) == r.state \in {"recording", "paused"}

\* A recorder whose stream has no live track left stops by itself: it
\* becomes inactive and queues its final dataavailable and stop events.
Inactivate(r) == [r EXCEPT !.state = "inactive", !.finalizing = TRUE]

RecordersAfter(recs, live) ==
    [k \in Calls |->
        IF Active(recs[k]) /\ StreamTracks(k) \cap live = {}
        THEN Inactivate(recs[k]) ELSE recs[k]]

\* setInterval returns a handle that no live timer has.
NewHandle(live) == CHOOSE h \in Handles : h \notin live /\
                       \A g \in Handles : g \notin live => h <= g

startTimer(ref, live) ==
    [ref |-> NewHandle(live), live |-> live \cup {NewHandle(live)}]

stopTimer(ref, live) ==
    IF ref # 0 THEN [ref |-> 0, live |-> live \ {ref}]
    ELSE [ref |-> ref, live |-> live]

\* The blob a recorder hands to ondataavailable: <<recorder, number, size>>.
TakeData(k) ==
    <<k, recorders[k].seq + 1, IF recorders[k].gathered THEN 1 ELSE 0>>

Delivered(r) == [r EXCEPT !.gathered = FALSE, !.seq = r.seq + 1]

ondataavailable(chunks, data) ==
    IF data[3] > 0 THEN Append(chunks, data) ELSE chunks

NoCall == [pc |-> "unused", captureMode |-> "screen", micEnabled |-> TRUE,
           error |-> "none", retry |-> FALSE]
NoRecorder == [state |-> "none", gathered |-> FALSE, seq |-> 0, finalizing |-> FALSE]

\* ------------------------------------------------------- voice call values
Attempts == 1..MaxAttempts

\* A string is the sequence of its characters.
Chars == {" ", "a"}
Strings == UNION {[1..n -> Chars] : n \in 0..MaxInputLen}

\* generateRoomId: two random base-36 fragments, never empty.
GeneratedIds == {<<"g">>, <<"h">>}

NoCallState == [isInCall |-> FALSE, isConnecting |-> FALSE, callDuration |-> 0,
                roomId |-> <<>>, isHost |-> FALSE]
NoTrack == [live |-> FALSE, enabled |-> FALSE]
NoAttempt == [pc |-> "unused", kind |-> "none", roomId |-> <<>>]

\* String.prototype.trim: the white space at both ends is removed.
RECURSIVE trim(_)
trim(str) ==
    IF str = <<>> THEN str
    ELSE IF Head(str) = " " THEN trim(Tail(str))
    ELSE IF str[Len(str)] = " " THEN trim(SubSeq(str, 1, Len(str) - 1))
    ELSE str

\* -------------------------------------------------------------------- Init
Init ==
    /\ recordingState = [isRecording |-> FALSE, isPaused |-> FALSE,
                         duration |-> 0, recordedBlob |-> Null]
    /\ micEnabled = TRUE
    /\ captureMode = "screen"
    /\ mediaRecorderRef = 0
    /\ streamRef = 0
    /\ chunksRef = <<>>
    /\ intervalRef = 0
    /\ timers = {}
    /\ calls = [k \in Calls |-> NoCall]
    /\ liveTracks = {}
    /\ recorders = [k \in Calls |-> NoRecorder]
    /\ toast = "none"
    /\ uncaught = FALSE
    /\ hadSession = FALSE
    /\ periods = 0
    /\ settings = 0
    /\ scenario = 0
    /\ mounted = TRUE
    /\ exported = <<>>
    /\ jobs = {}
    /\ transcriptState = [isProcessing |-> FALSE, transcript |-> "",
                          meetingPoints |-> <<>>]
    /\ callState = NoCallState
    /\ callMicEnabled = TRUE
    /\ roomInput = <<>>
    /\ peers = <<>>
    /\ localStreamRef = 0
    /\ callTimerRef = 0
    /\ callTimers = {}
    /\ micTracks = [k \in Attempts |-> NoTrack]
    /\ attempts = [k \in Attempts |-> NoAttempt]
    /\ callToast = "none"

\* ---------------------------------------------------------- startRecording
\* A request made now is a retry: an earlier request has failed, and none
\* is pending or has succeeded.
Retrying ==
    /\ \E j \in Calls : calls[j].pc = "failed"
    /\ \A j \in Calls : calls[j].pc \in {"failed", "unused"}

\* The handler up to its first await: the closure keeps captureMode and
\* micEnabled of the render in which the request was made.
startRecording(k) ==
    /\ calls[k].pc = "unused"
    /\ \A j \in Calls : j < k => calls[j].pc # "unused"
    /\ calls' = [calls EXCEPT ![k] =
                    [pc |-> IF captureMode \in {"screen", "window"}
                            THEN "getDisplayMedia" ELSE "getUserMedia",
                     captureMode |-> captureMode,
                     micEnabled |-> micEnabled,
                     error |-> "none",
                     retry |-> Retrying]]
    /\ uncaught' = FALSE
    /\ Observe(IF captureMode = "screen" /\ micEnabled THEN "start" ELSE "other")
    /\ UNCHANGED <<recordingState, micEnabled, captureMode, mediaRecorderRef,
                   streamRef, chunksRef, intervalRef, timers, liveTracks,
                   recorders, toast, hadSession, periods, settings, others>>

\* The catch block without its toast: the failure is logged and not shown.
StartFailedSilently(k, error) ==
    /\ calls' = [calls EXCEPT ![k].pc = "failed", ![k].error = error]
    /\ uncaught' = FALSE
    /\ UNCHANGED <<recordingState, micEnabled, captureMode, intervalRef, timers,
                   toast, hadSession, periods, settings, others>>

\* The catch block: the error caught is logged and the failure reported,
\* nothing is undone.
StartFailed(k, error) ==
    /\ calls' = [calls EXCEPT ![k].pc = "failed", ![k].error = error]
    /\ toast' = "Recording Failed"
    /\ uncaught' = FALSE
    /\ UNCHANGED <<recordingState, micEnabled, captureMode, intervalRef, timers,
                   hadSession, periods, settings, others>>

\* The rest of the handler without the reset of recordedBlob: the artifact
\* of the session before stays.
ContinueKeepingArtifact(k, live, outcome) ==
    /\ streamRef' = k
    /\ chunksRef' = <<>>
    /\ liveTracks' = live
    /\ IF outcome = "constructor"
       THEN /\ StartFailed(k, "constructor")
            /\ UNCHANGED <<mediaRecorderRef, recorders>>
       ELSE /\ mediaRecorderRef' = k
            /\ IF outcome = "start"
               THEN /\ StartFailed(k, "start")
                    /\ recorders' = [recorders EXCEPT ![k].state = "inactive"]
               ELSE /\ recorders' = [recorders EXCEPT ![k].state = "recording"]
                    /\ recordingState' = [recordingState EXCEPT
                            !.isRecording = TRUE, !.isPaused = FALSE,
                            !.duration = 0]
                    /\ intervalRef' = startTimer(intervalRef, timers).ref
                    /\ timers' = startTimer(intervalRef, timers).live
                    /\ calls' = [calls EXCEPT ![k].pc = "returned"]
                    /\ toast' = "Recording Started"
                    /\ uncaught' = FALSE
                    /\ hadSession' = TRUE
                    /\ periods' = 0
                    /\ UNCHANGED <<micEnabled, captureMode, settings, others>>

\* The handler from the assignment of streamRef to its end, run when the
\* last acquisition has resolved; live is the set of live tracks then.
\* outcome: "ok", or which of the two recorder calls throws.
Continue(k, live, outcome) ==
    /\ streamRef' = k
    /\ chunksRef' = <<>>
    /\ liveTracks' = live
    /\ IF outcome = "constructor"
       THEN /\ StartFailed(k, "constructor")
            /\ UNCHANGED <<mediaRecorderRef, recorders>>
       ELSE /\ mediaRecorderRef' = k
            /\ IF outcome = "start"
               THEN /\ StartFailed(k, "start")
                    /\ recorders' = [recorders EXCEPT ![k].state = "inactive"]
               ELSE /\ recorders' = [recorders EXCEPT ![k].state = "recording"]
                    /\ recordingState' = [recordingState EXCEPT
                            !.isRecording = TRUE, !.isPaused = FALSE,
                            !.duration = 0, !.recordedBlob = Null]
                    /\ intervalRef' = startTimer(intervalRef, timers).ref
                    /\ timers' = startTimer(intervalRef, timers).live
                    /\ calls' = [calls EXCEPT ![k].pc = "returned"]
                    /\ toast' = "Recording Started"
                    /\ uncaught' = FALSE
                    /\ hadSession' = TRUE
                    /\ periods' = 0
                    /\ UNCHANGED <<micEnabled, captureMode, settings, others>>

Outcomes == {"ok", "constructor", "start"}

\* getDisplayMedia resolves.
DisplayGranted(k) ==
    /\ calls[k].pc = "getDisplayMedia"
    /\ IF calls[k].micEnabled
       THEN /\ calls' = [calls EXCEPT ![k].pc = "getUserMediaMic"]
            /\ liveTracks' = liveTracks \cup {<<k, "display">>}
            /\ uncaught' = FALSE
            /\ Observe("display")
            /\ UNCHANGED <<recordingState, micEnabled, captureMode,
                           mediaRecorderRef, streamRef, chunksRef, intervalRef,
                           timers, recorders, toast, hadSession, periods, settings, others>>
       ELSE /\ \E o \in Outcomes :
                  Continue(k, liveTracks \cup {<<k, "display">>}, o)
            /\ Observe("other")

\* getUserMedia({audio: true}) resolves: the microphone track joins the stream.
MicGranted(k) ==
    /\ calls[k].pc = "getUserMediaMic"
    /\ \E o \in Outcomes :
          /\ Continue(k, liveTracks \cup {<<k, "mic">>}, o)
          /\ Observe(IF o = "ok" THEN "mic" ELSE "other")

\* getUserMedia(getMediaConstraints()) resolves.
CameraGranted(k) ==
    /\ calls[k].pc = "getUserMedia"
    /\ \E o \in Outcomes : Continue(k, liveTracks \cup {<<k, "camera">>}, o)
    /\ Observe("other")

\* An acquisition is rejected (permission denied, no device, not allowed
\* in this context): control passes to the catch block.
Rejected(k) ==
    /\ StartFailed(k, "acquisition")
    /\ Observe("other")
    /\ UNCHANGED <<mediaRecorderRef, streamRef, chunksRef, liveTracks, recorders>>

DisplayDenied(k) == calls[k].pc = "getDisplayMedia" /\ Rejected(k)
MicDenied(k) == calls[k].pc = "getUserMediaMic" /\ Rejected(k)
CameraDenied(k) == calls[k].pc = "getUserMedia" /\ Rejected(k)

\* pauseRecording if it paused the recorder and left the timer running.
pauseRecordingKeepingTimer ==
    IF mediaRecorderRef # 0 /\ isRecording
    THEN IF ~Active(recorders[mediaRecorderRef])
         THEN /\ uncaught' = TRUE
              /\ Observe("other")
              /\ UNCHANGED <<recordingState, micEnabled, captureMode,
                             mediaRecorderRef, streamRef, chunksRef, intervalRef,
                             timers, calls, liveTracks, recorders, toast,
                             hadSession, periods, settings, others>>
         ELSE IF isPaused
         THEN /\ recorders' = [recorders EXCEPT ![mediaRecorderRef].state = "recording"]
              /\ intervalRef' = startTimer(intervalRef, timers).ref
              /\ timers' = startTimer(intervalRef, timers).live
              /\ recordingState' = [recordingState EXCEPT !.isPaused = FALSE]
              /\ toast' = "Recording Resumed"
              /\ uncaught' = FALSE
              /\ Observe("resume")
              /\ UNCHANGED <<micEnabled, captureMode, mediaRecorderRef, streamRef,
                             chunksRef, calls, liveTracks, hadSession, periods, settings, others>>
         ELSE /\ recorders' = [recorders EXCEPT ![mediaRecorderRef].state = "paused"]
              /\ UNCHANGED <<intervalRef, timers>>
              /\ recordingState' = [recordingState EXCEPT !.isPaused = TRUE]
              /\ toast' = "Recording Paused"
              /\ uncaught' = FALSE
              /\ Observe("pause")
              /\ UNCHANGED <<micEnabled, captureMode, mediaRecorderRef, streamRef,
                             chunksRef, calls, liveTracks, hadSession, periods, settings, others>>
    ELSE /\ uncaught' = FALSE
         /\ Observe("other")
         /\ UNCHANGED <<recordingState, micEnabled, captureMode, mediaRecorderRef,
                        streamRef, chunksRef, intervalRef, timers, calls,
                        liveTracks, recorders, toast, hadSession, periods, settings, others>>

\* ---------------------------------------------------------- pauseRecording
\* One handler serves both buttons: it resumes when isPaused, pauses
\* otherwise.  pause() and resume() throw InvalidStateError on an inactive
\* recorder, before the handler has touched anything.
pauseRecording ==
    IF mediaRecorderRef # 0 /\ isRecording
    THEN IF ~Active(recorders[mediaRecorderRef])
         THEN /\ uncaught' = TRUE
              /\ Observe("other")
              /\ UNCHANGED <<recordingState, micEnabled, captureMode,
                             mediaRecorderRef, streamRef, chunksRef, intervalRef,
                             timers, calls, liveTracks, recorders, toast,
                             hadSession, periods, settings, others>>
         ELSE IF isPaused
         THEN /\ recorders' = [recorders EXCEPT ![mediaRecorderRef].state = "recording"]
              /\ intervalRef' = startTimer(intervalRef, timers).ref
              /\ timers' = startTimer(intervalRef, timers).live
              /\ recordingState' = [recordingState EXCEPT !.isPaused = FALSE]
              /\ toast' = "Recording Resumed"
              /\ uncaught' = FALSE
              /\ Observe("resume")
              /\ UNCHANGED <<micEnabled, captureMode, mediaRecorderRef, streamRef,
                             chunksRef, calls, liveTracks, hadSession, periods, settings, others>>
         ELSE /\ recorders' = [recorders EXCEPT ![mediaRecorderRef].state = "paused"]
              /\ intervalRef' = stopTimer(intervalRef, timers).ref
              /\ timers' = stopTimer(intervalRef, timers).live
              /\ recordingState' = [recordingState EXCEPT !.isPaused = TRUE]
              /\ toast' = "Recording Paused"
              /\ uncaught' = FALSE
              /\ Observe("pause")
              /\ UNCHANGED <<micEnabled, captureMode, mediaRecorderRef, streamRef,
                             chunksRef, calls, liveTracks, hadSession, periods, settings, others>>
    ELSE /\ uncaught' = FALSE
         /\ Observe("other")
         /\ UNCHANGED <<recordingState, micEnabled, captureMode, mediaRecorderRef,
                        streamRef, chunksRef, intervalRef, timers, calls,
                        liveTracks, recorders, toast, hadSession, periods, settings, others>>

\* stopRecording if it took isRecording down and left isPaused as it was.
stopRecordingKeepingPaused(throws) ==
    IF mediaRecorderRef # 0
    THEN IF ~Active(recorders[mediaRecorderRef]) /\ throws
         THEN /\ uncaught' = TRUE
              /\ Observe("other")
              /\ UNCHANGED <<recordingState, micEnabled, captureMode,
                             mediaRecorderRef, streamRef, chunksRef, intervalRef,
                             timers, calls, liveTracks, recorders, toast,
                             hadSession, periods, settings, others>>
         ELSE /\ recorders' = [recorders EXCEPT ![mediaRecorderRef] =
                                  IF Active(@) THEN Inactivate(@) ELSE @]
              /\ intervalRef' = stopTimer(intervalRef, timers).ref
              /\ timers' = stopTimer(intervalRef, timers).live
              /\ recordingState' = [recordingState EXCEPT !.isRecording = FALSE]
              /\ toast' = "Recording Stopped"
              /\ uncaught' = FALSE
              /\ Observe("stop")
              /\ UNCHANGED <<micEnabled, captureMode, mediaRecorderRef, streamRef,
                             chunksRef, calls, liveTracks, hadSession, periods, settings, others>>
    ELSE /\ uncaught' = FALSE
         /\ Observe("other")
         /\ UNCHANGED <<recordingState, micEnabled, captureMode, mediaRecorderRef,
                        streamRef, chunksRef, intervalRef, timers, calls,
                        liveTracks, recorders, toast, hadSession, periods, settings, others>>

\* ----------------------------------------------------------- stopRecording
\* stop() on an inactive recorder throws InvalidStateError in browsers that
\* follow the first editions of the MediaStream Recording specification and
\* returns silently in those that follow the current one: throws says which.
stopRecording(throws) ==
    IF mediaRecorderRef # 0
    THEN IF ~Active(recorders[mediaRecorderRef]) /\ throws
         THEN /\ uncaught' = TRUE
              /\ Observe("other")
              /\ UNCHANGED <<recordingState, micEnabled, captureMode,
                             mediaRecorderRef, streamRef, chunksRef, intervalRef,
                             timers, calls, liveTracks, recorders, toast,
                             hadSession, periods, settings, others>>
         ELSE /\ recorders' = [recorders EXCEPT ![mediaRecorderRef] =
                                  IF Active(@) THEN Inactivate(@) ELSE @]
              /\ intervalRef' = stopTimer(intervalRef, timers).ref
              /\ timers' = stopTimer(intervalRef, timers).live
              /\ recordingState' = [recordingState EXCEPT
                                       !.isRecording = FALSE, !.isPaused = FALSE]
              /\ toast' = "Recording Stopped"
              /\ uncaught' = FALSE
              /\ Observe("stop")
              /\ UNCHANGED <<micEnabled, captureMode, mediaRecorderRef, streamRef,
                             chunksRef, calls, liveTracks, hadSession, periods, settings, others>>
    ELSE /\ uncaught' = FALSE
         /\ Observe("other")
         /\ UNCHANGED <<recordingState, micEnabled, captureMode, mediaRecorderRef,
                        streamRef, chunksRef, intervalRef, timers, calls,
                        liveTracks, recorders, toast, hadSession, periods, settings, others>>

\* ------------------------------------------------------ recorder callbacks
\* A timeslice blob arrives (mediaRecorder.start(1000)).
DataAvailable(k) ==
    /\ recorders[k].state = "recording"
    /\ recorders[k].gathered
    /\ recorders[k].seq < MaxChunks
    /\ chunksRef' = ondataavailable(chunksRef, TakeData(k))
    /\ recorders' = [recorders EXCEPT ![k] = Delivered(@)]
    /\ uncaught' = FALSE
    /\ UNCHANGED <<recordingState, micEnabled, captureMode, mediaRecorderRef,
                   streamRef, intervalRef, timers, calls, liveTracks, toast,
                   hadSession, periods, settings, scenario, others>>

\* The tracks of the stream streamRef refers to when onstop runs.
Referenced == IF streamRef # 0 THEN StreamTracks(streamRef) ELSE {}

\* The task a stopped recorder queued: the last dataavailable event, then
\* the stop event, whose handler builds the blob and releases the stream.
Finalize(k) ==
    /\ recorders[k].finalizing
    /\ chunksRef' = ondataavailable(chunksRef, TakeData(k))
    /\ recordingState' = [recordingState EXCEPT !.recordedBlob = Some(chunksRef')]
    /\ liveTracks' = liveTracks \ Referenced
    /\ streamRef' = 0
    /\ recorders' = RecordersAfter(
           [recorders EXCEPT ![k] = [Delivered(@) EXCEPT !.finalizing = FALSE]],
           liveTracks')
    /\ uncaught' = FALSE
    /\ Observe("finalize")
    /\ UNCHANGED <<micEnabled, captureMode, mediaRecorderRef, intervalRef, timers,
                   calls, toast, hadSession, periods, settings, others>>

\* ------------------------------------------------------------- environment
\* A display track ends outside the program: the user ends the sharing
\* from the browser's own controls.
TrackEnded(t) ==
    /\ t \in liveTracks
    /\ t[2] = "display"
    /\ liveTracks' = liveTracks \ {t}
    /\ recorders' = RecordersAfter(recorders, liveTracks')
    /\ uncaught' = FALSE
    /\ Observe("other")
    /\ UNCHANGED <<recordingState, micEnabled, captureMode, mediaRecorderRef,
                   streamRef, chunksRef, intervalRef, timers, calls, toast,
                   hadSession, periods, settings, others>>

\* One timer period (1000 ms) passes: the callback of every live interval
\* runs once, and every recorder that is recording has gathered data.
Tick ==
    /\ \/ duration < MaxDuration /\ periods < MaxDuration
       \/ scenario < Len(Script)
    /\ recordingState' = [recordingState EXCEPT
                             !.duration = @ + Cardinality(timers)]
    /\ recorders' = [k \in Calls |->
                        IF recorders[k].state = "recording"
                        THEN [recorders[k] EXCEPT !.gathered = TRUE]
                        ELSE recorders[k]]
    /\ periods' = IF Status = "Recording" THEN periods + 1 ELSE periods
    /\ uncaught' = FALSE
    /\ Observe("tick")
    /\ UNCHANGED <<micEnabled, captureMode, mediaRecorderRef, streamRef,
                   chunksRef, intervalRef, timers, calls, liveTracks, toast,
                   hadSession, settings, others>>

\* ---------------------------------------------------------------- the view
\* The buttons exist while the component is mounted.  The Start button is
\* rendered while isRecording is false, the Pause/Resume and Stop buttons
\* while it is true; the capture-source and microphone buttons are disabled
\* while it is true.
ClickStart == mounted /\ ~isRecording /\ \E k \in Calls : startRecording(k)
ClickPause == mounted /\ isRecording /\ pauseRecording
ClickStop == mounted /\ isRecording /\ \E throws \in BOOLEAN : stopRecording(throws)

SetCaptureMode(m) ==
    /\ mounted
    /\ ~isRecording
    /\ settings < MaxSettings
    /\ settings' = settings + 1
    /\ captureMode' = m
    /\ uncaught' = FALSE
    /\ Observe("other")
    /\ UNCHANGED <<recordingState, micEnabled, mediaRecorderRef, streamRef,
                   chunksRef, intervalRef, timers, calls, liveTracks, recorders,
                   toast, hadSession, periods, others>>

ToggleMic ==
    /\ mounted
    /\ ~isRecording
    /\ settings < MaxSettings
    /\ settings' = settings + 1
    /\ micEnabled' = ~micEnabled
    /\ uncaught' = FALSE
    /\ Observe("other")
    /\ UNCHANGED <<recordingState, captureMode, mediaRecorderRef, streamRef,
                   chunksRef, intervalRef, timers, calls, liveTracks, recorders,
                   toast, hadSession, periods, others>>

\* Requests made of the controller while their button is not rendered.
RequestPause == ~isRecording /\ pauseRecording
RequestStop == ~isRecording /\ \E throws \in BOOLEAN : stopRecording(throws)

\* ---------------------------------------------------------------- download
\* The handler if it gave the blob away with the file: recordedBlob is
\* null once the download has started.
downloadRecordingConsuming ==
    IF recordedBlob # Null
    THEN /\ exported' = Append(exported, recordedBlob[1])
         /\ recordingState' = [recordingState EXCEPT !.recordedBlob = Null]
         /\ toast' = "Download Started"
         /\ uncaught' = FALSE
         /\ Observe("other")
         /\ UNCHANGED <<micEnabled, captureMode, mediaRecorderRef,
                        streamRef, chunksRef, intervalRef, timers, calls,
                        liveTracks, recorders, hadSession, periods, settings,
                        mounted, jobs, transcriptState, voice>>
    ELSE /\ uncaught' = FALSE
         /\ Observe("other")
         /\ UNCHANGED <<recordingState, micEnabled, captureMode, mediaRecorderRef,
                        streamRef, chunksRef, intervalRef, timers, calls,
                        liveTracks, recorders, toast, hadSession, periods,
                        settings, others>>

\* The handler of the Download Recording button: an object URL of the blob
\* is handed to an anchor, which saves the blob's bytes as a file.
downloadRecording ==
    IF recordedBlob # Null
    THEN /\ exported' = Append(exported, recordedBlob[1])
         /\ toast' = "Download Started"
         /\ uncaught' = FALSE
         /\ Observe("other")
         /\ UNCHANGED <<recordingState, micEnabled, captureMode, mediaRecorderRef,
                        streamRef, chunksRef, intervalRef, timers, calls,
                        liveTracks, recorders, hadSession, periods, settings,
                        mounted, jobs, transcriptState, voice>>
    ELSE /\ uncaught' = FALSE
         /\ Observe("other")
         /\ UNCHANGED <<recordingState, micEnabled, captureMode, mediaRecorderRef,
                        streamRef, chunksRef, intervalRef, timers, calls,
                        liveTracks, recorders, toast, hadSession, periods,
                        settings, others>>

\* The Download Recording button is rendered while recordedBlob is set.
DownloadRendered == mounted /\ recordedBlob # Null

ClickDownload ==
    /\ DownloadRendered
    /\ Len(exported) < MaxDownloads
    /\ downloadRecording

\* ------------------------------------------------------------------- leave
\* Index switches activeTab away from 'recording': renderContent returns
\* another page and React unmounts RecordingStudio.  The component has no
\* effect cleanup, so unmounting runs none of its code: the refs, the
\* timers, the tracks and the recorders stay as they are.
Leave ==
    /\ mounted
    /\ mounted' = FALSE
    /\ uncaught' = FALSE
    /\ Observe("other")
    /\ UNCHANGED <<recordingState, micEnabled, captureMode, mediaRecorderRef,
                   streamRef, chunksRef, intervalRef, timers, calls, liveTracks,
                   recorders, toast, hadSession, periods, settings, exported,
                   jobs, transcriptState, voice>>

\* ------------------------------------------------ transcript (part_000)
\* src/unnamed/part_000 is RecordingStudio with a transcript step: its
\* recordingState has three more fields (transcriptState here) and its
\* stopRecording ends by scheduling processRecordingForTranscript.

\* transcribeAudio resolves with the same text whatever the blob.
transcribeAudio(audioBlob) == "Welcome to today's meeting."

\* extractMeetingPoints returns the same five points whatever the text.
extractMeetingPoints(transcript) ==
    <<"Quarterly revenue increased by 15%",
      "Mobile app launch scheduled for Q2",
      "Plan to hire 3 new backend developers",
      "Action items assigned for next sprint",
      "Deliverable deadlines established">>

\* stopRecording of part_000.  The callback handed to setTimeout calls the
\* processRecordingForTranscript of the render in which the button was
\* clicked, and that function reads recordingState of the same render: the
\* job keeps the recordedBlob of now.
stopRecordingTranscript(throws) ==
    IF mediaRecorderRef # 0
    THEN IF ~Active(recorders[mediaRecorderRef]) /\ throws
         THEN /\ uncaught' = TRUE
              /\ Observe("other")
              /\ UNCHANGED <<recordingState, micEnabled, captureMode,
                             mediaRecorderRef, streamRef, chunksRef, intervalRef,
                             timers, calls, liveTracks, recorders, toast,
                             hadSession, periods, settings, others>>
         ELSE /\ recorders' = [recorders EXCEPT ![mediaRecorderRef] =
                                  IF Active(@) THEN Inactivate(@) ELSE @]
              /\ intervalRef' = stopTimer(intervalRef, timers).ref
              /\ timers' = stopTimer(intervalRef, timers).live
              /\ recordingState' = [recordingState EXCEPT
                                       !.isRecording = FALSE, !.isPaused = FALSE]
              /\ toast' = "Recording Stopped"
              /\ jobs' = jobs \cup {[pc |-> "setTimeout", blob |-> recordedBlob]}
              /\ uncaught' = FALSE
              /\ Observe("stop")
              /\ UNCHANGED <<micEnabled, captureMode, mediaRecorderRef, streamRef,
                             chunksRef, calls, liveTracks, hadSession, periods,
                             settings, mounted, exported, transcriptState, voice>>
    ELSE /\ uncaught' = FALSE
         /\ Observe("other")
         /\ UNCHANGED <<recordingState, micEnabled, captureMode, mediaRecorderRef,
                        streamRef, chunksRef, intervalRef, timers, calls,
                        liveTracks, recorders, toast, hadSession, periods,
                        settings, others>>

ClickStopTranscript ==
    mounted /\ isRecording /\ \E throws \in BOOLEAN : stopRecordingTranscript(throws)

\* The timeout of stopRecording fires: processRecordingForTranscript runs
\* up to its await of transcribeAudio, or returns at once when the blob it
\* sees is null.  (extractAudioFromBlob resolves with the blob it is given.)
processRecordingForTranscript(j) ==
    /\ j \in jobs
    /\ j.pc = "setTimeout"
    /\ IF j.blob = Null
       THEN /\ jobs' = jobs \ {j}
            /\ UNCHANGED transcriptState
       ELSE /\ jobs' = (jobs \ {j}) \cup {[j EXCEPT !.pc = "transcribeAudio"]}
            /\ transcriptState' = [transcriptState EXCEPT !.isProcessing = TRUE]
    /\ uncaught' = FALSE
    /\ Observe("other")
    /\ UNCHANGED <<recordingState, micEnabled, captureMode, mediaRecorderRef,
                   streamRef, chunksRef, intervalRef, timers, calls, liveTracks,
                   recorders, toast, hadSession, periods, settings, mounted,
                   exported, voice>>

\* The timeout of transcribeAudio fires: processRecordingForTranscript
\* runs from its await to its end.
Transcribed(j) ==
    /\ j \in jobs
    /\ j.pc = "transcribeAudio"
    /\ jobs' = jobs \ {j}
    /\ transcriptState' =
           [isProcessing |-> FALSE,
            transcript |-> transcribeAudio(j.blob),
            meetingPoints |-> extractMeetingPoints(transcribeAudio(j.blob))]
    /\ toast' = "Processing Complete"
    /\ uncaught' = FALSE
    /\ Observe("other")
    /\ UNCHANGED <<recordingState, micEnabled, captureMode, mediaRecorderRef,
                   streamRef, chunksRef, intervalRef, timers, calls, liveTracks,
                   recorders, hadSession, periods, settings, mounted, exported, voice>>

\* ----------------------------------------------------------- specification
\* Every step but the click on Stop, which the two versions of the
\* component handle differently.
Shared ==
    \/ ClickStart
    \/ ClickPause
    \/ \E m \in CaptureModes : SetCaptureMode(m)
    \/ ToggleMic
    \/ \E k \in Calls : DisplayGranted(k)
    \/ \E k \in Calls : DisplayDenied(k)
    \/ \E k \in Calls : MicGranted(k)
    \/ \E k \in Calls : MicDenied(k)
    \/ \E k \in Calls : CameraGranted(k)
    \/ \E k \in Calls : CameraDenied(k)
    \/ \E k \in Calls : DataAvailable(k)
    \/ \E k \in Calls : Finalize(k)
    \/ \E t \in liveTracks : TrackEnded(t)
    \/ Tick

Next == Shared \/ ClickStop

Spec == Init /\ [][Next]_vars

\* The controller driven through its handlers directly as well.
NextRequests == Next \/ RequestPause \/ RequestStop

SpecRequests == Init /\ [][NextRequests]_vars

\* The controller with its Download Recording button.
NextDownload == Next \/ ClickDownload

SpecDownload == Init /\ [][NextDownload]_vars

\* The controller inside the Index page, which can switch to another tab.
NextLeave == Next \/ Leave

SpecLeave == Init /\ [][NextLeave]_vars

\* The component of part_000, with its transcript step.
NextTranscript ==
    \/ Shared
    \/ ClickStopTranscript
    \/ \E j \in jobs : processRecordingForTranscript(j)
    \/ \E j \in jobs : Transcribed(j)

SpecTranscript == Init /\ [][NextTranscript]_vars

\* The tasks a recorder has queued are run; nothing else is promised: the
\* acquisitions wait on the user, and so do the buttons.
FairSpec == Spec /\ \A k \in Calls : WF_vars(Finalize(k))

\* ------------------------------------------------------------ voice calls
\* VoiceCallStudio (src/src/components/VoiceCallStudio.tsx).  Every
\* invocation of createRoom or joinRoom that gets to ask for the microphone
\* is an "attempt" k; the stream it is given carries the number k.
isInCall == callState.isInCall
isConnecting == callState.isConnecting
callDuration == callState.callDuration

NewCallHandle(live) == CHOOSE h \in 1..(MaxAttempts + 1) : h \notin live /\
                           \A g \in 1..(MaxAttempts + 1) : g \notin live => h <= g

startCallTimer(ref, live) ==
    [ref |-> NewCallHandle(live), live |-> live \cup {NewCallHandle(live)}]

stopCallTimer(ref, live) ==
    IF ref # 0 THEN [ref |-> 0, live |-> live \ {ref}]
    ELSE [ref |-> ref, live |-> live]

\* createRoom if it did not set isConnecting: the buttons stay enabled.
createRoomUnguarded(k, id) ==
    /\ attempts[k].pc = "unused"
    /\ \A j \in Attempts : j < k => attempts[j].pc # "unused"
    /\ attempts' = [attempts EXCEPT ![k] =
                       [pc |-> "getUserMedia", kind |-> "create", roomId |-> id]]
    /\ UNCHANGED <<callState, callMicEnabled, roomInput, peers, localStreamRef,
                   callTimerRef, callTimers, micTracks, callToast, recording>>

\* createRoom up to its await: isConnecting is set, the room ID generated.
createRoom(k, id) ==
    /\ attempts[k].pc = "unused"
    /\ \A j \in Attempts : j < k => attempts[j].pc # "unused"
    /\ callState' = [callState EXCEPT !.isConnecting = TRUE]
    /\ attempts' = [attempts EXCEPT ![k] =
                       [pc |-> "getUserMedia", kind |-> "create", roomId |-> id]]
    /\ UNCHANGED <<callMicEnabled, roomInput, peers, localStreamRef,
                   callTimerRef, callTimers, micTracks, callToast, recording>>

\* joinRoom up to its await, or to its return when the room ID is blank.
\* The closure keeps the roomInput of the render the handler belongs to.
joinRoom(k) ==
    IF trim(roomInput) = <<>>
    THEN /\ callToast' = "Room ID Required"
         /\ UNCHANGED <<callState, callMicEnabled, roomInput, peers,
                        localStreamRef, callTimerRef, callTimers, micTracks,
                        attempts, recording>>
    ELSE /\ attempts[k].pc = "unused"
         /\ \A j \in Attempts : j < k => attempts[j].pc # "unused"
         /\ callState' = [callState EXCEPT !.isConnecting = TRUE]
         /\ attempts' = [attempts EXCEPT ![k] =
                            [pc |-> "getUserMedia", kind |-> "join",
                             roomId |-> trim(roomInput)]]
         /\ UNCHANGED <<callMicEnabled, roomInput, peers, localStreamRef,
                        callTimerRef, callTimers, micTracks, callToast, recording>>

\* The handler of attempt k if it started the call timer before the
\* microphone was asked for and kept it on failure.
EnterCallFailedKeepingTimer(k) ==
    /\ attempts[k].pc = "getUserMedia"
    /\ attempts' = [attempts EXCEPT ![k].pc = "failed"]
    /\ callState' = [callState EXCEPT !.isConnecting = FALSE]
    /\ callTimerRef' = startCallTimer(callTimerRef, callTimers).ref
    /\ callTimers' = startCallTimer(callTimerRef, callTimers).live
    /\ callToast' = IF attempts[k].kind = "create"
                    THEN "Failed to Create Room" ELSE "Failed to Join Room"
    /\ UNCHANGED <<callMicEnabled, roomInput, peers, localStreamRef,
                   micTracks, recording>>

\* getUserMedia is rejected: initializeLocalStream throws, and the catch
\* block of createRoom or joinRoom takes isConnecting down and reports.
EnterCallFailed(k) ==
    /\ attempts[k].pc = "getUserMedia"
    /\ attempts' = [attempts EXCEPT ![k].pc = "failed"]
    /\ callState' = [callState EXCEPT !.isConnecting = FALSE]
    /\ callToast' = IF attempts[k].kind = "create"
                    THEN "Failed to Create Room" ELSE "Failed to Join Room"
    /\ UNCHANGED <<callMicEnabled, roomInput, peers, localStreamRef,
                   callTimerRef, callTimers, micTracks, recording>>

\* The rest of the handler of attempt k if joinRoom took isHost for itself.
EnterCallAsHost(k) ==
    /\ attempts[k].pc = "getUserMedia"
    /\ attempts' = [attempts EXCEPT ![k].pc = "returned"]
    /\ localStreamRef' = k
    /\ micTracks' = [micTracks EXCEPT ![k] = [live |-> TRUE, enabled |-> TRUE]]
    /\ callState' = [isInCall |-> TRUE, isConnecting |-> FALSE,
                     callDuration |-> 0, roomId |-> attempts[k].roomId,
                     isHost |-> TRUE]
    /\ callTimerRef' = startCallTimer(callTimerRef, callTimers).ref
    /\ callTimers' = startCallTimer(callTimerRef, callTimers).live
    /\ callToast' = IF attempts[k].kind = "create"
                    THEN "Room Created" ELSE "Joined Room"
    /\ UNCHANGED <<callMicEnabled, roomInput, peers, recording>>

\* getUserMedia resolves: initializeLocalStream stores the stream, and
\* createRoom or joinRoom enters the call and starts the call timer.
EnterCall(k) ==
    /\ attempts[k].pc = "getUserMedia"
    /\ attempts' = [attempts EXCEPT ![k].pc = "returned"]
    /\ localStreamRef' = k
    /\ micTracks' = [micTracks EXCEPT ![k] = [live |-> TRUE, enabled |-> TRUE]]
    /\ callState' = [isInCall |-> TRUE, isConnecting |-> FALSE,
                     callDuration |-> 0, roomId |-> attempts[k].roomId,
                     isHost |-> (attempts[k].kind = "create")]
    /\ callTimerRef' = startCallTimer(callTimerRef, callTimers).ref
    /\ callTimers' = startCallTimer(callTimerRef, callTimers).live
    /\ callToast' = IF attempts[k].kind = "create"
                    THEN "Room Created" ELSE "Joined Room"
    /\ UNCHANGED <<callMicEnabled, roomInput, peers, recording>>

\* leaveCall if it forgot the call timer.
leaveCallKeepingTimer ==
    /\ IF localStreamRef # 0
       THEN /\ micTracks' = [micTracks EXCEPT ![localStreamRef].live = FALSE]
            /\ localStreamRef' = 0
       ELSE UNCHANGED <<micTracks, localStreamRef>>
    /\ peers' = <<>>
    /\ callState' = NoCallState
    /\ callToast' = "Call Ended"
    /\ UNCHANGED <<callTimerRef, callTimers, callMicEnabled, roomInput,
                   attempts, recording>>

leaveCall ==
    /\ IF localStreamRef # 0
       THEN /\ micTracks' = [micTracks EXCEPT ![localStreamRef].live = FALSE]
            /\ localStreamRef' = 0
       ELSE UNCHANGED <<micTracks, localStreamRef>>
    /\ peers' = <<>>
    /\ callTimerRef' = stopCallTimer(callTimerRef, callTimers).ref
    /\ callTimers' = stopCallTimer(callTimerRef, callTimers).live
    /\ callState' = NoCallState
    /\ callToast' = "Call Ended"
    /\ UNCHANGED <<callMicEnabled, roomInput, attempts, recording>>

toggleMicrophone ==
    IF localStreamRef # 0
    THEN /\ micTracks' = [micTracks EXCEPT ![localStreamRef].enabled = ~callMicEnabled]
         /\ callMicEnabled' = ~callMicEnabled
         /\ callToast' = IF callMicEnabled THEN "Microphone Muted"
                                           ELSE "Microphone Unmuted"
         /\ UNCHANGED <<callState, roomInput, peers, localStreamRef,
                        callTimerRef, callTimers, attempts, recording>>
    ELSE UNCHANGED vars

\* One period (1000 ms) passes: the callback of every live call timer runs.
CallTick ==
    /\ callDuration < MaxCallDuration
    /\ callTimers # {}
    /\ callState' = [callState EXCEPT !.callDuration = @ + Cardinality(callTimers)]
    /\ UNCHANGED <<callMicEnabled, roomInput, peers, localStreamRef,
                   callTimerRef, callTimers, micTracks, attempts, callToast,
                   recording>>

\* The view: Create Room, Join Room and the room ID field are rendered
\* while isInCall is false and disabled while isConnecting (Join Room also
\* while the field is blank); Mute/Unmute and Leave Call are rendered while
\* isInCall is true.
ClickCreateRoom ==
    /\ ~isInCall /\ ~isConnecting
    /\ \E k \in Attempts, id \in GeneratedIds : createRoom(k, id)

JoinEnabled == ~isInCall /\ ~isConnecting /\ trim(roomInput) # <<>>

ClickJoinRoom == JoinEnabled /\ \E k \in Attempts : joinRoom(k)

SetRoomInput(str) ==
    /\ ~isInCall /\ ~isConnecting
    /\ roomInput' = str
    /\ UNCHANGED <<callState, callMicEnabled, peers, localStreamRef,
                   callTimerRef, callTimers, micTracks, attempts, callToast,
                   recording>>

ClickMute == isInCall /\ toggleMicrophone
ClickLeaveCall == isInCall /\ leaveCall

\* joinRoom called although its button is disabled.
RequestJoinRoom == ~JoinEnabled /\ \E k \in Attempts : joinRoom(k)

NextVoice ==
    \/ ClickCreateRoom
    \/ ClickJoinRoom
    \/ \E str \in Strings : SetRoomInput(str)
    \/ \E k \in Attempts : EnterCall(k)
    \/ \E k \in Attempts : EnterCallFailed(k)
    \/ ClickMute
    \/ ClickLeaveCall
    \/ CallTick

SpecVoice == Init /\ [][NextVoice]_vars

\* The voice-call controller with joinRoom driven directly as well.
NextVoiceRequests == NextVoice \/ RequestJoinRoom

SpecVoiceRequests == Init /\ [][NextVoiceRequests]_vars

\* ------------------------------------------------------------------ claims
Awaiting == {"getDisplayMedia", "getUserMediaMic", "getUserMedia"}
AllTracks(k) == {<<k, "display">>, <<k, "mic">>, <<k, "camera">>}

\* The streams that have a live track, but for the stream a start request
\* is still assembling (display acquired, microphone not yet answered).
OpenStreams ==
    {k \in Calls : calls[k].pc # "getUserMediaMic" /\ AllTracks(k) \cap liveTracks # {}}

\* A recorder has stopped and its finalize task has not run yet.
FinalizePending == \E k \in Calls : recorders[k].finalizing

\* C1: across pause and resume requests at most one interval timer is live
\* at any moment, and duration does not increase from one Paused state to
\* the next.
C1_PauseResumeKeepsOneTimer ==
    [][/\ Cardinality(timers') <= 1
       /\ (Status = "Paused" /\ Status' = "Paused" => duration' <= duration)]_vars

\* The state a stop request has to lead to: the artifact exists, the flags
\* are down, and the stream of every start that succeeded is released.
Finalized ==
    /\ recordedBlob # Null
    /\ ~isRecording
    /\ ~isPaused
    /\ streamRef = 0
    /\ \A k \in Calls : calls[k].pc = "returned" => StreamTracks(k) \cap liveTracks = {}

\* C2: a stop request accepted in Recording or in Paused (it raises the
\* "Recording Stopped" toast) leads to a state where the artifact exists,
\* isRecording and isPaused are false and the capture handle is released.
C2_StopLeadsToFinalized == (toast = "Recording Stopped") ~> Finalized

\* C3: the artifact exists if and only if the status is Stopped (the moment
\* between a stop and the recorder's finalize task is left aside).
C3_ArtifactIffStopped ==
    ~FinalizePending => ((recordedBlob # Null) <=> (Status = "Stopped"))

\* A start request fails at its capture acquisition: it was waiting for
\* getDisplayMedia or for the camera and is now in its failed end state.
CaptureDenied(k) ==
    /\ calls[k].pc \in {"getDisplayMedia", "getUserMedia"}
    /\ calls'[k].pc = "failed"
    /\ calls'[k].error = "acquisition"

C5_FailedStartHoldsNothing ==
    \A k \in Calls : calls[k].pc = "failed" =>
        AllTracks(k) \cap liveTracks = {} /\ streamRef # k

\* C6: at most one start request is waiting for a capture acquisition.
C6_OneOutstandingAcquisition ==
    Cardinality({k \in Calls : calls[k].pc \in Awaiting}) <= 1

\* C7: every live interval timer is the one intervalRef refers to, so at
\* most one is live.
C7_LiveTimerIsReferenced == timers \subseteq {intervalRef}

\* C8: every stream with a live track is the one streamRef refers to, so at
\* most one is open; and in Stopped, once the finalize task has run, no
\* track is live.
C8_OneOpenStream ==
    /\ OpenStreams \subseteq {streamRef}
    /\ (Status = "Stopped" /\ ~FinalizePending => liveTracks = {})

\* C9: a pause or stop request made while no session is active changes
\* neither the status, the timers, the chunks nor the artifact, and raises
\* no exception.
C9_RedundantRequestsAreNoOps ==
    [][(RequestPause \/ RequestStop) =>
          /\ UNCHANGED <<recordingState, hadSession, timers, intervalRef, chunksRef>>
          /\ ~uncaught']_vars

\* C10: the run of Script ends with duration = 5, status Stopped, a
\* non-empty artifact and no live track; and whenever the status is Stopped,
\* duration is the number of timer periods that elapsed in Recording.
C10_DurationCountsRecordingPeriods ==
    /\ scenario = Len(Script) =>
          /\ duration = 5
          /\ Status = "Stopped"
          /\ recordedBlob # Null /\ Len(recordedBlob[1]) > 0
          /\ streamRef = 0 /\ liveTracks = {}
    /\ Status = "Stopped" => duration = periods

\* The finalize task of recorder k runs in this step: its onstop handler
\* produces an artifact.
Produced(k) == recorders[k].finalizing /\ ~recorders'[k].finalizing

\* Start request k succeeds in this step: a new session begins.
Started(k) == calls[k].pc # "returned" /\ calls'[k].pc = "returned"

\* C11: an artifact is produced only after a stop request (isRecording is
\* down) and only when none exists yet, and an artifact that exists changes
\* only when a new session starts.
C11_ArtifactProducedOnceByStop ==
    [][/\ \A k \in Calls : Produced(k) => ~isRecording /\ recordedBlob = Null
       /\ (recordedBlob # Null /\ recordedBlob' # recordedBlob =>
               \E k \in Calls : Started(k))]_vars

\* The non-empty blobs recorder k has delivered once its finalize task has
\* run: its timeslice blobs, and the last blob if data was gathered since.
SessionChunks(k) ==
    [i \in 1..(recorders[k].seq + IF recorders[k].gathered THEN 1 ELSE 0) |->
        <<k, i, 1>>]

\* C12: the artifact a recorder's finalize task produces is the sequence of
\* the non-empty blobs that this recorder delivered, in the order of their
\* delivery, and nothing else.
C12_ArtifactIsTheSessionsChunks ==
    [][\A k \in Calls : Produced(k) => recordedBlob' = Some(SessionChunks(k))]_vars

\* C13: while the artifact exists the download can be run, and a download
\* saves the bytes of recordedBlob and leaves the session state, the refs
\* and the browser objects as they were.
C13_DownloadLeavesStateUnchanged ==
    [][/\ (mounted /\ recordedBlob # Null /\ Len(exported) < MaxDownloads =>
               ENABLED ClickDownload)
       /\ (exported' # exported =>
               /\ recordedBlob # Null
               /\ exported' = Append(exported, recordedBlob[1])
               /\ UNCHANGED <<recordingState, micEnabled, captureMode,
                              mediaRecorderRef, streamRef, chunksRef, intervalRef,
                              timers, calls, liveTracks, recorders, hadSession>>)]_vars

\* C13 witness: a non-empty artifact was downloaded twice, both files hold
\* the same bytes, and they are the bytes of the artifact that is there.
C13_Witness ==
    /\ Len(exported) = 2
    /\ exported[1] = exported[2]
    /\ Len(exported[1]) > 0
    /\ recordedBlob = Some(exported[2])
    /\ toast = "Download Started"

\* C14: the chunk list grows only in a step that starts in Recording.
C14_ChunksGrowOnlyInRecording ==
    [][Len(chunksRef') > Len(chunksRef) => Status = "Recording"]_vars

\* C15: from one state with isRecording set to the next, captureMode and
\* micEnabled stay as they are; and while isRecording is set they are the
\* values the start request of the session's recorder was made with.
C15_SettingsFixedDuringSession ==
    [][/\ (isRecording /\ isRecording' =>
               captureMode' = captureMode /\ micEnabled' = micEnabled)
       /\ (isRecording' /\ mediaRecorderRef' # 0 =>
               /\ calls'[mediaRecorderRef'].captureMode = captureMode'
               /\ calls'[mediaRecorderRef'].micEnabled = micEnabled')]_vars

\* C16: the step that unmounts RecordingStudio ends with no live track, no
\* live timer, an empty chunk list and no artifact.
C16_LeavingReleasesEverything ==
    [][mounted /\ ~mounted' =>
          /\ liveTracks' = {}
          /\ streamRef' = 0
          /\ timers' = {}
          /\ chunksRef' = <<>>
          /\ recordedBlob' = Null]_vars

\* C17: once a recording is stopped, its artifact exists and no callback
\* of the transcript step is pending any more, the transcription has run:
\* isProcessing is down again, transcript is the fixed text and
\* meetingPoints the five fixed points.
C17_TranscriptionCompletes ==
    Status = "Stopped" /\ recordedBlob # Null /\ jobs = {} /\ ~FinalizePending =>
        /\ ~transcriptState.isProcessing
        /\ transcriptState.transcript = transcribeAudio(recordedBlob[1])
        /\ Len(transcriptState.meetingPoints) = 5

\* C18: when getDisplayMedia is rejected the session runs in demo mode:
\* isRecording is set and a timer is live, with no track of the request.
C18_BlockedDisplayRunsDemoMode ==
    [][\A k \in Calls :
          calls[k].pc = "getDisplayMedia" /\ calls'[k].pc = "failed" =>
              /\ isRecording'
              /\ timers' # {}
              /\ AllTracks(k) \cap liveTracks' = {}]_vars

\* C19: once a start request has failed and none is pending or has
\* succeeded, a further start request is accepted; and when that request
\* succeeds the status is Recording, duration is 0, one timer is live and
\* the only stream with a live track is the one of the new session.
C19_RetryAfterFailedStart ==
    [][/\ (mounted /\ Retrying /\ (\E k \in Calls : calls[k].pc = "unused") =>
               ENABLED ClickStart)
       /\ \A k \in Calls : Started(k) /\ calls[k].retry =>
               /\ Status' = "Recording"
               /\ duration' = 0
               /\ Cardinality(timers') = 1
               /\ {j \in Calls : AllTracks(j) \cap liveTracks' # {}} = {k}]_vars

\* C20: when a start request succeeds in Stopped, the new session enters
\* Recording with no artifact, duration 0 and an empty chunk list.
C20_StartClearsEarlierSession ==
    [][\A k \in Calls : Started(k) /\ Status = "Stopped" =>
          /\ Status' = "Recording"
          /\ recordedBlob' = Null
          /\ duration' = 0
          /\ chunksRef' = <<>>]_vars

\* C20 witness: the first session was stopped and its recorder finalized
\* (it delivered its last blob), and the second start request has put the
\* session in Recording with nothing left of the first.
C20_Witness ==
    /\ calls[1].pc = "returned" /\ calls[2].pc = "returned"
    /\ recorders[1].state = "inactive" /\ ~recorders[1].finalizing
    /\ recorders[1].seq >= 1
    /\ recorders[2].state = "recording" /\ recorders[2].seq = 0
    /\ Status = "Recording"
    /\ recordedBlob = Null /\ duration = 0 /\ chunksRef = <<>>

\* C21: duration is never negative, and it changes only by growing in a
\* step that starts in Recording or by the reset to 0 of a start request
\* that succeeds.
C21_DurationAdvancesOnlyInRecording ==
    [][/\ duration' >= 0
       /\ (duration' # duration =>
               \/ Status = "Recording" /\ duration' > duration
               \/ duration' = 0 /\ \E k \in Calls : Started(k))]_vars

NewerSession(k) ==
    /\ streamRef # 0 /\ streamRef # k
    /\ calls[streamRef].pc = "returned"
    /\ recorders[streamRef].state = "recording"
    /\ calls[k].pc = "returned"

\* C23: when the finalize task of a stopped recorder runs after a newer
\* session has started, the tracks of the newer session's stream stay live
\* and recordedBlob stays null while that session is Recording.
C23_LateFinalizeSparesNewSession ==
    [][\A k \in Calls : Produced(k) /\ NewerSession(k) =>
          /\ StreamTracks(streamRef) \cap liveTracks \subseteq liveTracks'
          /\ (isRecording => recordedBlob' = Null)]_vars

\* C24: no state has the artifact built and the stream released by a
\* recorder that finalized by itself while isRecording is still set.
C24_SelfFinalizeEndsSession ==
    ~(/\ isRecording
      /\ recordedBlob # Null
      /\ streamRef = 0
      /\ mediaRecorderRef # 0
      /\ recorders[mediaRecorderRef].state = "inactive")

\* C25: isPaused implies isRecording in every state, and a start request
\* that succeeds and a stop request that is accepted both leave isPaused
\* false.
C25_PausedImpliesRecording ==
    [][/\ (isPaused' => isRecording')
       /\ (\A k \in Calls : Started(k) => ~isPaused')
       /\ (isRecording /\ ~isRecording' => ~isPaused')]_vars

\* C25 witness: the session is paused, with both flags set and its recorder
\* paused.
C25_Witness ==
    /\ isPaused /\ isRecording
    /\ mediaRecorderRef # 0
    /\ recorders[mediaRecorderRef].state = "paused"
    /\ toast = "Recording Paused"

LiveStreams == {k \in Attempts : micTracks[k].live}

\* C26: in a call, micEnabled is the enabled flag of the audio track of
\* the local stream.
C26_ShownMicIsRealMic ==
    isInCall => /\ localStreamRef # 0
                /\ callMicEnabled = micTracks[localStreamRef].enabled

\* C27: the step that leaves a call ends with every local track stopped,
\* localStreamRef null, no call timer live, no peer, and callState at its
\* initial value.
C27_LeaveCallEndsEverything ==
    [][isInCall /\ ~isInCall' =>
          /\ LiveStreams' = {}
          /\ localStreamRef' = 0
          /\ callTimers' = {} /\ callTimerRef' = 0
          /\ peers' = <<>>
          /\ callState' = NoCallState]_vars

\* C27 witness: a call that was entered has been left.
C27_Witness ==
    /\ callToast = "Call Ended"
    /\ attempts[1].pc = "returned"
    /\ ~micTracks[1].live
    /\ callState = NoCallState
    /\ callTimers = {} /\ localStreamRef = 0

\* Attempt k ends in this step, by failing or by entering the call.
AttemptFails(k) == attempts[k].pc = "getUserMedia" /\ attempts'[k].pc = "failed"
AttemptEnters(k) == attempts[k].pc = "getUserMedia" /\ attempts'[k].pc = "returned"

\* C28: when the microphone acquisition of an attempt fails, isConnecting
\* is down and isInCall still false afterwards, roomId, isHost and
\* callDuration are as before, no timer is live, no stream is held, and a
\* failure toast is raised.
C28_FailedAcquisitionEntersNoCall ==
    [][\A k \in Attempts : AttemptFails(k) =>
          /\ ~isConnecting' /\ ~isInCall'
          /\ callState'.roomId = callState.roomId
          /\ callState'.isHost = callState.isHost
          /\ callState'.callDuration = callState.callDuration
          /\ callTimers' = {} /\ callTimerRef' = 0
          /\ localStreamRef' = 0 /\ LiveStreams' = {}
          /\ callToast' = IF attempts[k].kind = "create"
                          THEN "Failed to Create Room"
                          ELSE "Failed to Join Room"]_vars

\* C28 witness: a join attempt was denied the microphone.
C28_Witness ==
    /\ attempts[1].pc = "failed" /\ attempts[1].kind = "join"
    /\ callToast = "Failed to Join Room"
    /\ callState = NoCallState
    /\ localStreamRef = 0 /\ callTimers = {}

\* A room ID with no white space at either end, and not empty.
Trimmed(str) == str # <<>> /\ Head(str) # " " /\ str[Len(str)] # " "

\* C29: while the room ID field is blank no join attempt is made, and the
\* step that raises "Room ID Required" changes neither callState, the
\* stream, the timers nor the attempts; a join attempt carries the trimmed
\* field and enters the call with that room ID and isHost false, a create
\* attempt enters it with isHost true.
C29_BlankRoomIdIsRejected ==
    [][/\ (callToast' = "Room ID Required" /\ callToast # callToast' =>
               /\ trim(roomInput) = <<>>
               /\ UNCHANGED <<callState, localStreamRef, callTimerRef,
                              callTimers, micTracks, attempts>>)
       /\ \A k \in Attempts :
               /\ (attempts[k].pc = "unused" /\ attempts'[k].kind = "join" =>
                       /\ trim(roomInput) # <<>>
                       /\ attempts'[k].roomId = trim(roomInput)
                       /\ Trimmed(attempts'[k].roomId))
               /\ (AttemptEnters(k) /\ attempts[k].kind = "join" =>
                       /\ callState'.roomId = attempts[k].roomId
                       /\ Trimmed(callState'.roomId)
                       /\ ~callState'.isHost)
               /\ (AttemptEnters(k) /\ attempts[k].kind = "create" =>
                       callState'.isHost)]_vars

\* C29 witness: joinRoom was called with a field of white space only and
\* nothing but the toast has changed.
C29_Witness ==
    /\ callToast = "Room ID Required"
    /\ roomInput = <<" ">>
    /\ callState = NoCallState
    /\ \A k \in Attempts : attempts[k].pc = "unused"
    /\ localStreamRef = 0 /\ callTimers = {}

\* C30: at most one call timer and at most one local stream are live, and
\* only in a call; isConnecting and isInCall are not both set.
C30_OneCallAtATime ==
    /\ Cardinality(callTimers) <= 1
    /\ Cardinality(LiveStreams) <= 1
    /\ (callTimers # {} \/ LiveStreams # {} => isInCall)
    /\ ~(isConnecting /\ isInCall)

\* C30 witness: a second call is running, after one that was left, with
\* one timer and one stream.
C30_Witness ==
    /\ attempts[1].pc = "returned" /\ attempts[2].pc = "returned"
    /\ isInCall
    /\ localStreamRef = 2
    /\ LiveStreams = {2}
    /\ callTimers = {callTimerRef}

====
